---- MODULE Spec2Model ----
(***************************************************************************)
(* State-machine model of barqing.py: the per-user Refresher tasks, the    *)
(* Bot's command handler and registry, the shared update queue and the     *)
(* task that drains it.  Tasks are asyncio coroutines: one action is the   *)
(* code a task runs between two awaits that really suspend.                *)
(***************************************************************************)
EXTENDS Integers, Sequences, FiniteSets, TLC

(***************************************************************************)
(* Bounds of the model and the small sets inputs are drawn from.           *)
(***************************************************************************)
\* total number of tuples ever put on the update queue
MaxPuts == 2

\* Telegram chat ids (msg.chat.id), which are also the notify destinations
Users == {1, 2}
\* bearer credentials given to /login
Creds == {"ta", "tb"}
\* remote profile ids, conversation ids and message ids
ProfileIds == {"p1", "p2"}
ChatIds == {"c1", "c2"}
MsgIds == {"m1", "m2"}

\* Python's None
None == "None"

\* barqing.py:13
NEWMSG == 0

(***************************************************************************)
(* The remote API's data.                                                  *)
(***************************************************************************)
\* who wrote each message, and the profile a credential belongs to
AuthorOf(m) == IF m = "m1" THEN "p1" ELSE "p2"
ProfileOf(auth) == IF auth = "ta" THEN "p1" ELSE "p2"
DisplayNameOf(p) == IF p = "p1" THEN "Ann" ELSE "Bob"
ContentOf(m) == IF m = "m1" THEN "hi" ELSE "yo"

\* a lastMessage object: { profile { id displayName } content id }
Message(m) ==
    [id |-> m, content |-> ContentOf(m),
     profile |-> [id |-> AuthorOf(m), displayName |-> DisplayNameOf(AuthorOf(m))]]

Messages == {Message(m) : m \in MsgIds}

RECURSIVE SeqsUpTo(_, _)
SeqsUpTo(S, n) ==
    IF n = 0 THEN {<<>>}
    ELSE LET shorter == SeqsUpTo(S, n - 1)
         IN  shorter \cup {Append(s, x) : s \in {t \in shorter : Len(t) = n - 1}, x \in S}

DistinctIds(list) ==
    \A i, j \in 1..Len(list) : i # j => list[i].id # list[j].id

\* The chat lists an account with conversations cs can be answered with: any
\* of its conversations, each at most once, in any order, each with a latest
\* message.  With faults, an entry may lack its lastMessage; it is then the
\* last entry (what follows it is never read).
ChatLists(cs, faults) ==
    LET good == {[id |-> c, lastMessage |-> m] : c \in cs, m \in Messages}
        bad == IF faults THEN {[id |-> c] : c \in cs} ELSE {}
    IN  {l \in SeqsUpTo(good \cup bad, Cardinality(cs)) :
            /\ DistinctIds(l)
            /\ \A i \in 1..Len(l) : l[i] \in bad => i = Len(l)}

\* the answers that are no success: a JSON body without data, a body that is
\* no JSON, a status that is not 200
Failures ==
    {[status |-> 200, json |-> TRUE, body |-> [errors |-> "e"]],
     [status |-> 200, json |-> FALSE, body |-> "text"],
     [status |-> 500, json |-> TRUE, body |-> [errors |-> "e"]],
     [status |-> 500, json |-> FALSE, body |-> "text"]}

\* What session.post answers to the conversations query
ChatsResponses(cs, faults) ==
    {[status |-> 200, json |-> TRUE, body |-> [data |-> [chats |-> l]]] :
        l \in ChatLists(cs, faults)}
    \cup (IF faults THEN Failures ELSE {})

\* What session.post answers to the identity query
IdentityResponses(auth, faults) ==
    {[status |-> 200, json |-> TRUE,
      body |-> [data |-> [user |-> [profile |-> [id |-> ProfileOf(auth)]]]]]}
    \cup (IF faults THEN Failures ELSE {})

\* the texts of inbound messages, already split at white space: the three
\* commands, and texts the handler passes over
Commands == {<<"/start">>, <<"/stop">>} \cup {<<"/login", c>> : c \in Creds}
Texts == Commands \cup {<<"/login">>, <<"hello">>, <<>>}

(***************************************************************************)
(* State.                                                                  *)
(***************************************************************************)
VARIABLES
    world,          \* the surroundings: who writes to the bot, what the remote holds
    refreshers,     \* Bot._refreshers: chat id -> the RefresherData of its Refresher
    ntasks,         \* per user, the Refresher tasks in Bot._tasks
    pc,             \* per user, where its Refresher task is suspended
    db,             \* Bot._db: the keys of the shelf and what each holds
    update_queue,   \* Bot._refresher_queue
    qtag,           \* history: per queued tuple, its put number and origin
    nput,           \* history: number of puts so far
    dpc,            \* where _get_refresher_updates is suspended
    hand,           \* the tuple _get_refresher_updates is sending (at most one)
    quit,           \* Bot._quit: whether the event is set
    handed,         \* history: the puts in the order they reached send_message
    reported,       \* history: per user, the latest ids its previous cycle reported
    held,           \* history: per user and conversation, the baselines held so far
    notified,       \* history: per user and conversation, the message ids notified
    last            \* history: the step just taken, when a command or a diff cycle

vars == <<world, refreshers, ntasks, pc, db, update_queue, qtag, nput, dpc, hand,
          quit, handed, reported, held, notified, last>>

NoReport == [c \in ChatIds |-> None]
NoIds == [c \in ChatIds |-> {}]
NoStep == [op |-> "none"]

\* The state after Bot.__init__ on an empty shelf, in world w
InitIn(w) ==
    /\ world = w
    /\ refreshers = <<>>
    /\ ntasks = [u \in Users |-> 0]
    /\ pc = [u \in Users |-> "none"]
    /\ db = [k \in {"refreshers"} |-> <<>>]
    /\ update_queue = <<>>
    /\ qtag = <<>>
    /\ nput = 0
    /\ dpc = "get"
    /\ hand = <<>>
    /\ quit = FALSE
    /\ handed = <<>>
    /\ reported = [u \in Users |-> NoReport]
    /\ held = [u \in Users |-> NoIds]
    /\ notified = [u \in Users |-> NoIds]
    /\ last = NoStep

\* One user, who may write any text; the account of credential "ta" holds
\* two conversations; the remote may fail.
OneUser ==
    [users |-> {1}, texts |-> Texts, faults |-> TRUE,
     chats |-> [a \in Creds |-> IF a = "ta" THEN {"c1", "c2"} ELSE {}]]

\* Two users, who write commands; the account of credential "ta" holds one
\* conversation; the remote is reliable.
TwoUsers ==
    [users |-> {1, 2}, texts |-> Commands, faults |-> FALSE,
     chats |-> [a \in Creds |-> IF a = "ta" THEN {"c1"} ELSE {}]]

\* One user, who writes commands; the account of credential "ta" holds one
\* conversation; the remote may fail.
OneChat ==
    [users |-> {1}, texts |-> Commands, faults |-> TRUE,
     chats |-> [a \in Creds |-> IF a = "ta" THEN {"c1"} ELSE {}]]

Init == InitIn(OneUser)
InitUsers == InitIn(TwoUsers)
InitChat == InitIn(OneChat)

(***************************************************************************)
(* Refresher (barqing.py:28-85).                                           *)
(***************************************************************************)
\* RefresherData(chats, auth, running, update_data), self_id defaulting to None
RefresherData(chats, auth, running, update_data) ==
    [chats |-> chats, auth |-> auth, running |-> running,
     update_data |-> update_data, self_id |-> None]

Chat(id, last_msg) == [id |-> id, last_msg |-> last_msg]

HasKey(d, k) == k \in DOMAIN d

\* _api: the status, and the parsed body when it is JSON, else its text
Api(r) ==
    [status |-> r.status,
     d |-> IF r.json THEN [type |-> "dict", value |-> r.body]
                     ELSE [type |-> "str", value |-> r.body]]

\* status == 200 and isinstance(d, dict)
Accepted(res) == res.status = 200 /\ res.d.type = "dict"

\* chat_id not in chats
IsUnseen(chats, chat_id) == chat_id \notin DOMAIN chats

\* a first observation that records no message id
RecordEmpty(chats, chat_id, msg_id) == (chat_id :> Chat(chat_id, None)) @@ chats

\* chats[chat_id] = Chat(chat_id, msg_id)
Record(chats, chat_id, msg_id) == (chat_id :> Chat(chat_id, msg_id)) @@ chats

\* chats[chat_id].last_msg != msg_id
IsNewMessage(chats, chat_id, msg_id) == chats[chat_id].last_msg # msg_id

\* a baseline that is compared but never moved
AdvanceNot(chats, chat_id, msg_id) == chats

\* chats[chat_id].last_msg = msg_id
Advance(chats, chat_id, msg_id) == [chats EXCEPT ![chat_id].last_msg = msg_id]

\* a self filter that compares the author's display name
FromSelfByName(data, msg) == msg.profile.displayName = data.self_id

\* msg['profile']['id'] == self.data.self_id
FromSelf(data, msg) == msg.profile.id = data.self_id

\* a tuple with content and sender in each other's place
UpdateOfSwapped(data, msg) ==
    <<data.update_data, NEWMSG, <<msg.content, msg.profile.displayName>>>>

\* a tuple addressed to one fixed chat
UpdateOfFirst(data, msg) ==
    <<1, NEWMSG, <<msg.profile.displayName, msg.content>>>>

\* the tuple put on the update queue
UpdateOf(data, msg) ==
    <<data.update_data, NEWMSG, <<msg.profile.displayName, msg.content>>>>

\* The body of the for loop over d['data']['chats'], entry by entry.  The
\* result is the chats map, the tuples put (each with the conversation and
\* message it is about) and whether an entry raised (KeyError).
RECURSIVE RefreshLoop(_, _, _, _)
RefreshLoop(list, data, chats, puts) ==
    IF list = <<>> THEN [chats |-> chats, puts |-> puts, raised |-> FALSE]
    ELSE
        LET chat == Head(list)
            chat_id == chat.id
        IN  IF ~HasKey(chat, "lastMessage")
            THEN [chats |-> chats, puts |-> puts, raised |-> TRUE]
            ELSE
                LET msg == chat.lastMessage
                    msg_id == msg.id
                    chats1 == IF IsUnseen(chats, chat_id)
                              THEN Record(chats, chat_id, msg_id)
                              ELSE chats
                    new == IsNewMessage(chats1, chat_id, msg_id)
                    chats2 == IF new THEN Advance(chats1, chat_id, msg_id) ELSE chats1
                    puts2 == IF new /\ ~FromSelf(data, msg)
                             THEN Append(puts, [item |-> UpdateOf(data, msg),
                                                chat |-> chat_id, msg |-> msg_id])
                             ELSE puts
                IN  RefreshLoop(Tail(list), data, chats2, puts2)

\* _do_refresh from the answer of the conversations query on
DoRefresh(data, r) ==
    LET res == Api(r)
    IN  IF Accepted(res)
        THEN IF HasKey(res.d.value, "data")
             THEN RefreshLoop(res.d.value.data.chats, data, data.chats, <<>>)
             ELSE [chats |-> data.chats, puts |-> <<>>, raised |-> TRUE]
        ELSE [chats |-> data.chats, puts |-> <<>>, raised |-> FALSE]

\* a loop that polls whatever the flag says
LoopTopAlways(data) == "refresh"

\* `while True: if self.data.running:` up to the next await: the
\* conversations query when running, else the sleep
LoopTop(data) == IF data.running THEN "refresh" ELSE "sleep"

\* the latest message id a successful response reports per conversation
LatestIds(r) ==
    LET l == r.body.data.chats
    IN  [c \in ChatIds |->
            IF \E i \in 1..Len(l) : l[i].id = c
            THEN (CHOOSE e \in {l[i] : i \in 1..Len(l)} : e.id = c).lastMessage.id
            ELSE None]

\* the response was accepted and every entry of it was processed
Succeeded(r, out) == Accepted(Api(r)) /\ ~out.raised

\* run(): from the task's first step to the identity query, or past it
RunStart(u) ==
    /\ pc[u] = "start"
    /\ pc' = [pc EXCEPT ![u] = IF refreshers[u].self_id = None
                               THEN "identity" ELSE LoopTop(refreshers[u])]
    /\ last' = NoStep
    /\ UNCHANGED <<world, quit, refreshers, ntasks, db, update_queue, qtag, nput, dpc, hand,
                   handed, reported,
                   held, notified>>

\* the identity answer was accepted and holds the profile id
Resolved(res) == Accepted(res) /\ HasKey(res.d.value, "data")

\* run(): the identity query answers; then the loop's first iteration
IdentityResume(u) ==
    /\ pc[u] = "identity"
    /\ \E r \in IdentityResponses(refreshers[u].auth, world.faults) :
        LET res == Api(r)
        IN  /\ IF Accepted(res)
               THEN IF HasKey(res.d.value, "data")
                    THEN /\ refreshers' = [refreshers EXCEPT
                               ![u].self_id = res.d.value.data.user.profile.id]
                         /\ pc' = [pc EXCEPT ![u] = LoopTop(refreshers[u])]
                    ELSE /\ pc' = [pc EXCEPT ![u] = "dead"]
                         /\ UNCHANGED refreshers
               ELSE /\ pc' = [pc EXCEPT ![u] = LoopTop(refreshers[u])]
                    /\ UNCHANGED refreshers
            /\ last' = [op |-> "identity", u |-> u, ok |-> Resolved(res)]
    /\ UNCHANGED <<world, quit, ntasks, db, update_queue, qtag, nput, dpc, hand, handed,
                   reported, held, notified>>

\* _do_refresh: the conversations query answers; the for loop runs without
\* suspending (put on an unbounded queue never waits), then the sleep starts
RefreshResume(u) ==
    /\ pc[u] = "refresh"
    /\ \E r \in ChatsResponses(world.chats[refreshers[u].auth], world.faults) :
        LET data == refreshers[u]
            out == DoRefresh(data, r)
            n == Len(out.puts)
        IN  /\ nput + n <= MaxPuts
            /\ refreshers' = [refreshers EXCEPT ![u].chats = out.chats]
            /\ update_queue' = update_queue \o [i \in 1..n |-> out.puts[i].item]
            /\ qtag' = qtag \o [i \in 1..n |->
                                  [n |-> nput + i, u |-> u,
                                   chat |-> out.puts[i].chat, msg |-> out.puts[i].msg]]
            /\ nput' = nput + n
            /\ pc' = [pc EXCEPT ![u] = IF out.raised THEN "dead" ELSE "sleep"]
            /\ reported' = [reported EXCEPT
                              ![u] = IF Succeeded(r, out) THEN LatestIds(r) ELSE NoReport]
            /\ held' = [held EXCEPT ![u] = [c \in ChatIds |->
                            IF c \in DOMAIN out.chats
                            THEN held[u][c] \cup {out.chats[c].last_msg}
                            ELSE held[u][c]]]
            /\ notified' = [notified EXCEPT ![u] = [c \in ChatIds |->
                            notified[u][c] \cup
                            {out.puts[i].msg : i \in {j \in 1..n : out.puts[j].chat = c}}]]
            /\ last' = [op |-> "refresh", u |-> u, before |-> data.chats,
                        running |-> data.running, self_id |-> data.self_id,
                        resp |-> r, ok |-> Succeeded(r, out), puts |-> out.puts,
                        prev |-> reported[u]]
    /\ UNCHANGED <<world, quit, ntasks, db, dpc, hand, handed>>

\* run(): asyncio.sleep(5) is over; the next iteration of the loop
SleepDone(u) ==
    /\ pc[u] = "sleep"
    /\ pc' = [pc EXCEPT ![u] = LoopTop(refreshers[u])]
    /\ last' = [op |-> "tick", u |-> u]
    /\ UNCHANGED <<world, quit, refreshers, ntasks, db, update_queue, qtag, nput, dpc, hand,
                   handed, reported,
                   held, notified>>

(***************************************************************************)
(* Bot (barqing.py:87-162).                                                *)
(***************************************************************************)
\* str(msg.chat.id)
Str(u) == ToString(u)

\* args[0].startswith('/')
IsCommand(args) == args[1] \in {"/start", "/stop", "/login"}

\* a membership test that always succeeds
LoggedInAlways(u) == TRUE

\* msg.chat.id in self._refreshers
LoggedIn(u) == u \in DOMAIN refreshers

\* a login that does not look for an existing session
LoginCreatesAgain(u, args) == args[1] = "/login" /\ Len(args) = 2

\* args[0] == '/login' and len(args) == 2, and msg.chat.id not in self._refreshers
LoginCreates(u, args) == args[1] = "/login" /\ Len(args) = 2 /\ ~LoggedIn(u)

\* the handler's reply, None when it sends none
ReplyTo(u, args) ==
    IF args = <<>> \/ ~IsCommand(args) THEN None
    ELSE IF args[1] = "/start"
         THEN IF LoggedIn(u) THEN "receiving messages" ELSE "you haven't logged in yet"
    ELSE IF args[1] = "/stop"
         THEN IF LoggedIn(u) THEN "not receiving messages anymore"
              ELSE "you haven't logged in yet"
    ELSE IF LoginCreates(u, args) THEN "receiving messages"
    ELSE None

\* a user's place in the command state machine, given the registry
StateOfIn(registry, u) ==
    IF u \notin DOMAIN registry THEN "no_session"
    ELSE IF registry[u].running THEN "session_active"
    ELSE "session_inactive"

\* a command that also forgets the baselines
SetRunningReset(u, value) == [refreshers EXCEPT ![u].running = value, ![u].chats = <<>>]

\* a flag that both commands clear
SetRunningFalse(u, value) == [refreshers EXCEPT ![u].running = FALSE]

\* self._refreshers[msg.chat.id].data.running = value
SetRunning(u, value) == [refreshers EXCEPT ![u].running = value]

\* _on_message for an inbound text from chat u
OnMessage(u, args) ==
    /\ last' = [op |-> "cmd", from |-> u, args |-> args, reply |-> ReplyTo(u, args),
                was |-> StateOfIn(refreshers, u)]
    /\ IF args = <<>> \/ ~IsCommand(args)
       THEN UNCHANGED <<refreshers, ntasks, pc, db>>
       ELSE IF args[1] = "/start" /\ LoggedIn(u)
       THEN /\ refreshers' = SetRunning(u, TRUE)
            /\ UNCHANGED <<ntasks, pc, db>>
       ELSE IF args[1] = "/stop" /\ LoggedIn(u)
       THEN /\ refreshers' = SetRunning(u, FALSE)
            /\ UNCHANGED <<ntasks, pc, db>>
       ELSE IF LoginCreates(u, args)
       THEN LET data == RefresherData(<<>>, args[2], TRUE, u)
            IN  /\ db' = (Str(u) :> data) @@ db
                /\ refreshers' = (u :> data) @@ refreshers
                /\ ntasks' = [ntasks EXCEPT ![u] = @ + 1]
                /\ pc' = [pc EXCEPT ![u] = "start"]
       ELSE UNCHANGED <<refreshers, ntasks, pc, db>>
    /\ UNCHANGED <<world, quit, update_queue, qtag, nput, dpc, hand, handed, reported,
                   held, notified>>

\* a queue that gives its newest item first
GetLast(q) == Len(q)

\* asyncio.Queue.get on a queue that holds an item: the place it takes from
GetIndex(q) == 1

\* _send_user_update: the text given to send_message
TextOf(item) == <<item[3][1], ":\n\n", item[3][2]>>

\* sequence q without its i-th item
Without(q, i) == [k \in 1..(Len(q) - 1) |-> IF k < i THEN q[k] ELSE q[k + 1]]

\* what _send_user_update is called with: the tuple got, its text and its tag
Sending(item, tag) ==
    [uid |-> item[1], text |-> TextOf(item), item |-> item, tag |-> tag]

\* _get_refresher_updates: the get that waited on an empty queue returns a
\* tuple, which goes to send_message (the event is not looked at here)
GetUpdate ==
    /\ dpc = "get"
    /\ update_queue # <<>>
    /\ LET i == GetIndex(update_queue)
       IN  /\ hand' = <<Sending(update_queue[i], qtag[i])>>
           /\ handed' = Append(handed, [n |-> qtag[i].n, u |-> qtag[i].u])
           /\ update_queue' = Without(update_queue, i)
           /\ qtag' = Without(qtag, i)
    /\ dpc' = "send"
    /\ last' = NoStep
    /\ UNCHANGED <<world, quit, refreshers, ntasks, pc, db, nput, reported,
                   held, notified>>

\* a send_message that raises ends the task (no try around the call)
AfterSendRaises(ok) == IF ok /\ ~quit THEN "get" ELSE "done"

\* `except: pass`, then `while not self._quit.is_set()`: the next get, or the end
AfterSend(ok) == IF quit THEN "done" ELSE "get"

\* a failed send puts its tuple back on the queue
QueueAfterSendAgain(q, item, ok) == IF ok THEN q ELSE Append(q, item)

\* the queue after send_message returned or raised: as it was
QueueAfterSend(q, item, ok) == q

\* _get_refresher_updates: send_message returns or raises; both are dropped.
\* When the loop goes on and the queue holds a tuple, get returns it without
\* suspending and the next send_message begins; on an empty queue get waits.
SendDone ==
    /\ dpc = "send"
    /\ \E ok \in BOOLEAN :
        LET q == QueueAfterSend(update_queue, hand[1].item, ok)
            t == QueueAfterSend(qtag, hand[1].tag, ok)
            i == GetIndex(q)
        IN  /\ last' = [op |-> "send", ok |-> ok, n |-> hand[1].tag.n]
            /\ IF AfterSend(ok) = "get" /\ q # <<>>
               THEN /\ hand' = <<Sending(q[i], t[i])>>
                    /\ handed' = Append(handed, [n |-> t[i].n, u |-> t[i].u])
                    /\ update_queue' = Without(q, i)
                    /\ qtag' = Without(t, i)
                    /\ dpc' = "send"
               ELSE /\ hand' = <<>>
                    /\ handed' = handed
                    /\ update_queue' = q
                    /\ qtag' = t
                    /\ dpc' = AfterSend(ok)
    /\ UNCHANGED <<world, quit, refreshers, ntasks, pc, db, nput,
                   reported, held, notified>>

Next ==
    \/ \E u \in world.users, args \in world.texts : OnMessage(u, args)
    \/ \E u \in Users : RunStart(u)
    \/ \E u \in Users : IdentityResume(u)
    \/ \E u \in Users : RefreshResume(u)
    \/ \E u \in Users : SleepDone(u)
    \/ GetUpdate
    \/ SendDone

Spec == Init /\ [][Next]_vars
SpecUsers == InitUsers /\ [][Next]_vars

\* What Bot.__init__ makes of the shelf: a Refresher for each value stored
\* under the key 'refreshers', registered under its update_data
Loaded(store) ==
    LET stored == {store["refreshers"][k] : k \in DOMAIN store["refreshers"]}
    IN  [d \in {refdata.update_data : refdata \in stored} |->
            CHOOSE refdata \in stored : refdata.update_data = d]

\* Shelf.sync() with writeback: every entry read or assigned in this process
\* is written again as it is now.  These are the sessions of the registry,
\* each under the key its login assigned (and 'refreshers', still empty).
Synced(store, registry) ==
    [k \in DOMAIN store |->
        IF \E u \in DOMAIN registry : Str(u) = k
        THEN registry[CHOOSE u \in DOMAIN registry : Str(u) = k]
        ELSE store[k]]

\* _sync_db: asyncio.sleep(600) is over; the shelf is synced
SyncDb ==
    /\ db' = Synced(db, refreshers)
    /\ last' = NoStep
    /\ UNCHANGED <<world, quit, refreshers, ntasks, pc, update_queue, qtag, nput, dpc,
                   hand, handed, reported, held, notified>>

\* The process ends and is started again on the same shelf: Bot.__init__ and
\* the tasks Bot.run creates.  What the process held in memory is gone.
Restart ==
    /\ refreshers' = Loaded(db)
    /\ ntasks' = [u \in Users |-> IF u \in DOMAIN Loaded(db) THEN 1 ELSE 0]
    /\ pc' = [u \in Users |-> IF u \in DOMAIN Loaded(db) THEN "start" ELSE "none"]
    /\ db' = IF "refreshers" \in DOMAIN db THEN db ELSE ("refreshers" :> <<>>) @@ db
    /\ update_queue' = <<>>
    /\ qtag' = <<>>
    /\ dpc' = "get"
    /\ hand' = <<>>
    /\ quit' = FALSE
    /\ handed' = <<>>
    /\ reported' = [u \in Users |-> NoReport]
    /\ held' = [u \in Users |-> NoIds]
    /\ notified' = [u \in Users |-> NoIds]
    /\ last' = [op |-> "restart"]
    /\ UNCHANGED <<world, nput>>

NextRestart ==
    \/ Next
    \/ SyncDb
    \/ Restart

SpecRestart == InitChat /\ [][NextRestart]_vars

\* The shutdown signal is set: Bot._quit.set().  The event is created at
\* barqing.py:91 and read at lines 117, 152 and 160; the module itself never
\* sets it, so the step is taken from the description of the signal and kept
\* out of Next.
Quit ==
    /\ ~quit
    /\ quit' = TRUE
    /\ last' = [op |-> "quit"]
    /\ UNCHANGED <<world, refreshers, ntasks, pc, db, update_queue, qtag, nput, dpc,
                   hand, handed, reported, held, notified>>

NextQuit ==
    \/ Next
    \/ Quit

SpecQuit == InitChat /\ [][NextQuit]_vars

\* The event loop runs every task that can go on: a query is answered, a sleep
\* ends, get returns when the queue holds an item, send_message returns or
\* raises.  Nothing makes a user write.
Fairness ==
    /\ \A u \in Users :
        /\ WF_vars(RunStart(u))
        /\ WF_vars(IdentityResume(u))
        /\ WF_vars(RefreshResume(u))
        /\ WF_vars(SleepDone(u))
    /\ WF_vars(GetUpdate)
    /\ WF_vars(SendDone)

SpecFair == InitChat /\ [][Next]_vars /\ Fairness

(***************************************************************************)
(* Reading the step just taken.                                            *)
(***************************************************************************)
\* the step just taken was a diff cycle: the conversations query answered
Cycle == last.op = "refresh"

\* the entries of that cycle's response the for loop went through: all of an
\* accepted chat list but a malformed last entry
Entries ==
    IF Cycle /\ last.resp.status = 200 /\ last.resp.json /\ "data" \in DOMAIN last.resp.body
    THEN LET l == last.resp.body.data.chats
         IN  {l[i] : i \in {j \in 1..Len(l) : "lastMessage" \in DOMAIN l[j]}}
    ELSE {}

\* the tuples that cycle put for conversation c, in order
PutsFor(c) == SelectSeq(last.puts, LAMBDA p : p.chat = c)

\* the baseline the cycle's session now holds for conversation c
Baseline(c) == refreshers[last.u].chats[c].last_msg

\* that cycle's puts are the end of the update queue
PutsAreQueued ==
    LET n == Len(last.puts)
        k == Len(update_queue)
    IN  /\ n <= k
        /\ \A i \in 1..n : update_queue[k - n + i] = last.puts[i].item

\* conversation c had a baseline before the cycle and e brings another message
BringsNew(e) ==
    /\ e.id \in DOMAIN last.before
    /\ last.before[e.id].last_msg # e.lastMessage.id

(***************************************************************************)
(* C1: a successful diff cycle that finds, for a conversation it already   *)
(* has a baseline for, a different latest message whose author is not the  *)
(* session's self id puts exactly one tuple (destination, NEWMSG, (display *)
(* name, content)) on the queue for it, and the baseline is that message.  *)
(***************************************************************************)
NewMessageNotifiedOnce ==
    (Cycle /\ last.ok) =>
        /\ PutsAreQueued
        /\ \A e \in Entries :
            (BringsNew(e) /\ e.lastMessage.profile.id # last.self_id) =>
                /\ PutsFor(e.id) =
                     <<[item |-> <<refreshers[last.u].update_data, NEWMSG,
                                   <<e.lastMessage.profile.displayName,
                                     e.lastMessage.content>>>>,
                        chat |-> e.id, msg |-> e.lastMessage.id]>>
                /\ Baseline(e.id) = e.lastMessage.id

\* a cycle over two conversations found a new message of another author in one
NewMessageSeen ==
    /\ Cycle /\ last.ok
    /\ Len(last.resp.body.data.chats) = 2
    /\ \E e \in Entries :
        /\ BringsNew(e)
        /\ e.lastMessage.profile.id # last.self_id
        /\ last.self_id # None
        /\ Len(PutsFor(e.id)) = 1
        /\ Baseline(e.id) = e.lastMessage.id

(***************************************************************************)
(* C2: the diff cycle that first sees a conversation puts nothing on the   *)
(* queue for it, whoever wrote its latest message, and records that        *)
(* message's id as the baseline.                                           *)
(***************************************************************************)
FirstObservationSilent ==
    Cycle =>
        \A e \in Entries :
            e.id \notin DOMAIN last.before =>
                /\ PutsFor(e.id) = <<>>
                /\ e.id \in DOMAIN refreshers[last.u].chats
                /\ Baseline(e.id) = e.lastMessage.id

\* a cycle first saw a conversation whose latest message is by someone else
FirstObservationSeen ==
    /\ Cycle
    /\ \E e \in Entries :
        /\ e.id \notin DOMAIN last.before
        /\ last.self_id # None
        /\ e.lastMessage.profile.id # last.self_id
        /\ Baseline(e.id) = e.lastMessage.id

(***************************************************************************)
(* C3: with the self id resolved, a diff cycle that finds a new latest     *)
(* message written by the self id puts nothing on the queue for it and     *)
(* still moves the baseline to it.                                         *)
(***************************************************************************)
SelfAuthoredSilent ==
    (Cycle /\ last.self_id # None) =>
        \A e \in Entries :
            (BringsNew(e) /\ e.lastMessage.profile.id = last.self_id) =>
                /\ PutsFor(e.id) = <<>>
                /\ Baseline(e.id) = e.lastMessage.id

\* a cycle found a new message written by the session's own profile
SelfAuthoredSeen ==
    /\ Cycle /\ last.ok
    /\ last.self_id # None
    /\ \E e \in Entries :
        /\ BringsNew(e)
        /\ e.lastMessage.profile.id = last.self_id
        /\ Baseline(e.id) = e.lastMessage.id

(***************************************************************************)
(* C4: no message id is notified more than once for a conversation, and a  *)
(* conversation's baseline never returns to an id it held before.          *)
(***************************************************************************)
NeverNotifiedTwiceNorReturns ==
    [][\A u \in DOMAIN refreshers : \A c \in ChatIds :
          /\ (/\ c \in DOMAIN refreshers[u].chats
              /\ refreshers'[u].chats[c].last_msg # refreshers[u].chats[c].last_msg)
                => refreshers'[u].chats[c].last_msg \notin held[u][c]
          /\ (last'.op = "refresh" /\ last'.u = u) =>
                \A i \in 1..Len(last'.puts) :
                    last'.puts[i].chat = c => last'.puts[i].msg \notin notified[u][c]]_vars

(***************************************************************************)
(* C5: when a successful diff cycle follows a successful diff cycle of the *)
(* same session and a conversation's latest message id is the same in      *)
(* both, the second puts nothing on the queue for that conversation and    *)
(* leaves its baseline as it was.                                          *)
(***************************************************************************)
UnchangedIdSilent ==
    (Cycle /\ last.ok) =>
        \A e \in Entries :
            last.prev[e.id] = e.lastMessage.id =>
                /\ PutsFor(e.id) = <<>>
                /\ e.id \in DOMAIN last.before
                /\ refreshers[last.u].chats[e.id] = last.before[e.id]

\* a second cycle reported the same id for one conversation and a new one for
\* the other
UnchangedIdSeen ==
    /\ Cycle /\ last.ok
    /\ \E e \in Entries : last.prev[e.id] = e.lastMessage.id
    /\ last.puts # <<>>

(***************************************************************************)
(* C6: while a session's running flag is false (a stop command cleared it  *)
(* and no start command has set it again) its Refresher puts nothing on    *)
(* the queue, also when the stop arrived with the query in flight.         *)
(***************************************************************************)
StoppedSessionSilent ==
    (Cycle /\ ~last.running) => last.puts = <<>>

(***************************************************************************)
(* C7: tuples reach send_message in the order they were put on the queue,  *)
(* whichever Refreshers put them: a tuple never reaches it while one put   *)
(* earlier is still queued, nor before one put earlier that reached it.    *)
(***************************************************************************)
FifoDispatch ==
    /\ \A i, j \in 1..Len(handed) : i < j => handed[i].n < handed[j].n
    /\ \A i \in 1..Len(qtag) : \A j \in 1..Len(handed) : handed[j].n < qtag[i].n

\* two tuples put by different Refreshers have both reached send_message
FifoSeen ==
    /\ Len(handed) = 2
    /\ handed[1].u # handed[2].u

(***************************************************************************)
(* Reading a command step: the inbound message just handled.               *)
(***************************************************************************)
\* the step is _on_message for a text of user u that begins with word
Handles(step, u, word) ==
    /\ step.op = "cmd"
    /\ step.from = u
    /\ step.args # <<>>
    /\ step.args[1] = word

(***************************************************************************)
(* C8: no user ever has more than one Refresher task, and a login command  *)
(* of a user who has a session starts no task and leaves the session (its  *)
(* credential, running flag and chats map) and every task as they were.    *)
(***************************************************************************)
OneRefresherPerUser ==
    [][/\ \A u \in Users : ntasks'[u] <= 1
       /\ \A u \in Users :
            (Handles(last', u, "/login") /\ u \in DOMAIN refreshers) =>
                /\ refreshers' = refreshers
                /\ ntasks' = ntasks
                /\ pc' = pc]_vars

\* a user polling with one credential has just sent a login with another
ReloginSeen ==
    /\ last.op = "cmd"
    /\ last.args = <<"/login", "tb">>
    /\ last.from \in DOMAIN refreshers
    /\ refreshers[last.from].auth = "ta"
    /\ refreshers[last.from].chats # <<>>
    /\ ntasks[last.from] = 1

(***************************************************************************)
(* C9: a user's state changes only by that user's commands and only so:    *)
(* login with a credential, from no_session, to session_active, creating   *)
(* a session with that credential, running and no chats; start to          *)
(* session_active and stop to session_inactive, from either session state; *)
(* never back to no_session.                                               *)
(***************************************************************************)
CommandStateMachine ==
    [][\A u \in Users :
        LET s == StateOfIn(refreshers, u)
            t == StateOfIn(refreshers', u)
        IN  /\ s # "no_session" => t # "no_session"
            /\ s # t =>
                \/ /\ Handles(last', u, "/login") /\ Len(last'.args) = 2
                   /\ s = "no_session" /\ t = "session_active"
                \/ /\ Handles(last', u, "/start")
                   /\ s # "no_session" /\ t = "session_active"
                \/ /\ Handles(last', u, "/stop")
                   /\ s # "no_session" /\ t = "session_inactive"
            /\ (Handles(last', u, "/login") /\ Len(last'.args) = 2 /\ s = "no_session") =>
                 refreshers'[u] = [chats |-> <<>>, auth |-> last'.args[2], running |-> TRUE,
                                   update_data |-> u, self_id |-> None]
            /\ (Handles(last', u, "/start") /\ s # "no_session") => t = "session_active"
            /\ (Handles(last', u, "/stop") /\ s # "no_session") => t = "session_inactive"]_vars

\* a stop command has just made a polling session inactive
StopSeen ==
    /\ last.op = "cmd"
    /\ last.args = <<"/stop">>
    /\ last.reply = "not receiving messages anymore"
    /\ StateOfIn(refreshers, last.from) = "session_inactive"
    /\ refreshers[last.from].chats # <<>>

(***************************************************************************)
(* C10: a start or stop command of a user without a session is answered    *)
(* "you haven't logged in yet" and changes nothing: no session, no task,   *)
(* nothing stored, nothing queued, no other user's session.                *)
(***************************************************************************)
NotLoggedInNoChange ==
    [][\A u \in Users :
        (/\ Handles(last', u, "/start") \/ Handles(last', u, "/stop")
         /\ u \notin DOMAIN refreshers) =>
            /\ last'.reply = "you haven't logged in yet"
            /\ refreshers' = refreshers
            /\ ntasks' = ntasks
            /\ pc' = pc
            /\ db' = db
            /\ update_queue' = update_queue]_vars

\* a user without a session has just sent stop while another user is polling
NotLoggedInSeen ==
    /\ last.op = "cmd"
    /\ last.args = <<"/stop">>
    /\ last.from \notin DOMAIN refreshers
    /\ last.reply = "you haven't logged in yet"
    /\ \E v \in DOMAIN refreshers : refreshers[v].chats # <<>>

(***************************************************************************)
(* C11: a diff cycle whose conversations query fails (a status other than  *)
(* 200, a body that is no JSON, or an accepted body that lacks data or a   *)
(* conversation's lastMessage) leaves the session's chats map as it was    *)
(* before the cycle and puts nothing on the queue, also for the            *)
(* conversations listed before the malformed entry.                        *)
(***************************************************************************)
FailedCycleChangesNothing ==
    (Cycle /\ ~last.ok) =>
        /\ refreshers[last.u].chats = last.before
        /\ last.puts = <<>>

(***************************************************************************)
(* C12: after any failure of the remote API (a status other than 200, a    *)
(* body that is no JSON, a malformed accepted body), in the identity query *)
(* or in a diff cycle, the Refresher is still in its loop: it waits for    *)
(* the next tick or has sent the next conversations query; no failure      *)
(* ends its task.                                                          *)
(***************************************************************************)
FailureKeepsLooping ==
    (last.op \in {"identity", "refresh"} /\ ~last.ok) =>
        pc[last.u] \in {"sleep", "refresh"}

\* the self id of user u's session, None without a session
StateOfId(u) == IF u \in DOMAIN refreshers THEN refreshers[u].self_id ELSE None

\* the step just taken was a failed identity query of user u's Refresher
IdentityFailed(u) ==
    IF last.op = "identity" THEN last.u = u /\ ~last.ok ELSE FALSE

(***************************************************************************)
(* C13: when the identity query made before the first diff cycle fails and *)
(* the Refresher goes on to poll, a later tick sends the identity query    *)
(* again, so that the self id is set once the remote answers it.  (A       *)
(* Refresher whose task has ended is left aside.)                          *)
(***************************************************************************)
IdentityRetried ==
    \A u \in Users :
        (IdentityFailed(u) /\ pc[u] # "dead")
            ~> (pc[u] \in {"identity", "dead"} \/ StateOfId(u) # None)

\* every conversation the cycle just taken went through is reported with the
\* message id the session held as its baseline before the cycle
RemoteUnchanged ==
    \A e \in Entries :
        /\ e.id \in DOMAIN last.before
        /\ last.before[e.id].last_msg = e.lastMessage.id

(***************************************************************************)
(* C14: a start or stop command of a user who has a session changes that   *)
(* session's running flag and nothing else: its chats map (every           *)
(* baseline), credential, self id and destination, the other sessions, the *)
(* Refresher tasks and the queue stay as they were; and a diff cycle that  *)
(* finds every conversation at the baseline the session holds, as after a  *)
(* stop and a start with the remote unchanged, puts nothing on the queue.  *)
(***************************************************************************)
StartStopOnlyFlag ==
    [][/\ \A u \in Users :
            (/\ Handles(last', u, "/start") \/ Handles(last', u, "/stop")
             /\ u \in DOMAIN refreshers) =>
                /\ refreshers' =
                     [refreshers EXCEPT ![u].running = Handles(last', u, "/start")]
                /\ ntasks' = ntasks
                /\ pc' = pc
                /\ update_queue' = update_queue
       /\ (Cycle' /\ last'.ok /\ RemoteUnchanged') =>
                /\ last'.puts = <<>>
                /\ update_queue' = update_queue
                /\ refreshers' = refreshers]_vars

\* a start command has just made active again a stopped session that holds
\* baselines and a self id
StartAfterStopSeen ==
    /\ last.op = "cmd"
    /\ last.args = <<"/start">>
    /\ last.was = "session_inactive"
    /\ StateOfIn(refreshers, last.from) = "session_active"
    /\ DOMAIN refreshers[last.from].chats = {"c1", "c2"}
    /\ refreshers[last.from].self_id # None

(***************************************************************************)
(* C15: when the process is started again, every session a login wrote to  *)
(* the shelf is loaded back: for each stored key the registry holds a      *)
(* session with the stored credential, destination, running flag and chats *)
(* map, and a Refresher task is started for it.                            *)
(***************************************************************************)
SessionsLoadedBack ==
    last.op = "restart" =>
        \A u \in Users :
            Str(u) \in DOMAIN db =>
                /\ u \in DOMAIN refreshers
                /\ refreshers[u].auth = db[Str(u)].auth
                /\ refreshers[u].update_data = db[Str(u)].update_data
                /\ refreshers[u].running = db[Str(u)].running
                /\ refreshers[u].chats = db[Str(u)].chats
                /\ ntasks[u] = 1
                /\ pc[u] = "start"

(***************************************************************************)
(* C16: a tuple taken from the queue reaches send_message at most once;    *)
(* when that call fails the tuple is not sent again and is not put back on *)
(* the queue, and the task goes on to the next get instead of ending.      *)
(***************************************************************************)
SendFailureDropped ==
    /\ \A i, j \in 1..Len(handed) : i # j => handed[i].n # handed[j].n
    /\ (last.op = "send" /\ ~last.ok) =>
            /\ \A i \in 1..Len(hand) : hand[i].tag.n # last.n
            /\ \A i \in 1..Len(qtag) : qtag[i].n # last.n
            /\ Len(update_queue) = Len(qtag)
            /\ ~quit => \/ dpc = "get" /\ update_queue = <<>>
                        \/ dpc = "send" /\ hand # <<>>

\* a send has just failed and the tuple put after it is being sent
SendFailureSeen ==
    /\ last.op = "send"
    /\ ~last.ok
    /\ dpc = "send"
    /\ Len(hand) = 1
    /\ hand[1].tag.n = last.n + 1

(***************************************************************************)
(* C17: once the shutdown signal is set, no tuple reaches send_message any *)
(* more, neither one that was on the queue at that moment nor one put      *)
(* later, whether _get_refresher_updates was waiting in get or in          *)
(* send_message when the signal was set.                                   *)
(***************************************************************************)
NoDispatchAfterQuit ==
    [][quit => handed' = handed]_vars

(***************************************************************************)
(* C18: a tick of a Refresher whose session's running flag is false sends  *)
(* no conversations query and changes no baseline, no session and no       *)
(* queue; the Refresher then waits for the next tick.  A tick with the     *)
(* flag true, also the first after a start command, sends the query.       *)
(***************************************************************************)
InactiveTickIdle ==
    [][\A u \in Users :
        (last'.op = "tick" /\ last'.u = u) =>
            /\ refreshers' = refreshers
            /\ update_queue' = update_queue
            /\ ~refreshers[u].running => pc'[u] = "sleep"
            /\ refreshers[u].running => pc'[u] = "refresh"]_vars

\* a stopped session that holds a baseline has just let a tick pass
InactiveTickSeen ==
    /\ last.op = "tick"
    /\ ~refreshers[last.u].running
    /\ pc[last.u] = "sleep"
    /\ refreshers[last.u].chats # <<>>

(***************************************************************************)
(* C19: with the shutdown signal not set and the tasks scheduled fairly,   *)
(* every tuple put on the queue (a put never waits) eventually reaches     *)
(* send_message, whatever became of the sends before it.                   *)
(***************************************************************************)
EveryPutDispatched ==
    \A k \in 1..MaxPuts :
        (\E i \in 1..Len(qtag) : qtag[i].n = k)
            ~> (\E j \in 1..Len(handed) : handed[j].n = k)

\* both tuples put have reached send_message and the task waits on the empty
\* queue again
AllDispatchedSeen ==
    /\ Len(handed) = 2
    /\ nput = 2
    /\ update_queue = <<>>
    /\ dpc = "get"
    /\ last.op = "send"
    /\ last.n = 2

\* the step leading to the primed state is a step of user u's Refresher that
\* the history records: an identity answer, a diff cycle or a tick
RefresherStepOf(step, u) ==
    IF step.op \in {"identity", "refresh", "tick"} THEN step.u = u ELSE FALSE

(***************************************************************************)
(* C20: every session is registered under its own destination; every      *)
(* tuple on the queue, and the tuple being sent, is addressed to the user  *)
(* whose Refresher put it; and a step of one user's Refresher changes no   *)
(* other user's session (chats map, running flag or anything else).        *)
(***************************************************************************)
SessionsIsolated ==
    [][/\ \A u \in DOMAIN refreshers' : refreshers'[u].update_data = u
       /\ Len(update_queue') = Len(qtag')
       /\ \A i \in 1..Len(update_queue') : update_queue'[i][1] = qtag'[i].u
       /\ \A i \in 1..Len(hand') : hand'[i].uid = hand'[i].tag.u
       /\ \A u \in Users :
            RefresherStepOf(last', u) =>
                /\ DOMAIN refreshers' = DOMAIN refreshers
                /\ \A v \in DOMAIN refreshers \ {u} : refreshers'[v] = refreshers[v]]_vars

\* two users poll with the same credential and each has a tuple on the queue
TwoSessionsSeen ==
    /\ DOMAIN refreshers = {1, 2}
    /\ refreshers[1].auth = refreshers[2].auth
    /\ Len(qtag) = 2
    /\ qtag[1].u # qtag[2].u
    /\ update_queue[1][1] # update_queue[2][1]

====
